---- MODULE Spec2Model ----
(***************************************************************************)
(* Model of gee-python-backend/server.py: the two POST handlers            *)
(* (compute_ndvi, generate_tiles) as a state machine, and the pure         *)
(* function apply_seasonal_normalization as operators.                     *)
(*                                                                         *)
(* Numbers.  An ndvi value is stored after round(x, 3); it is modelled as  *)
(* the integer number of thousandths.  Means and quotients are exact       *)
(* rationals <<num, den>> with den > 0.  round(x, k) is modelled by         *)
(* RoundSet: the nearest integer, and on an exact tie either neighbour,     *)
(* because the binary floating-point value the code rounds lies a few ulp   *)
(* on one side or the other of a decimal tie.                               *)
(*                                                                         *)
(* Strings are sequences of one-character strings, so that formatting a    *)
(* month key and parsing it back are two different computations.           *)
(***************************************************************************)
EXTENDS Integers, Sequences, FiniteSets, TLC

(* ------------------------------ bounds --------------------------------- *)

\* Requests range over the years FirstYear .. LastYear.
FirstYear == 2020
LastYear == 2021
\* The remote platform holds images for at most MaxData months of a request,
\* all of them among the calendar months DataMonths.
MaxData == 3
\* Inputs of the normalizer: points of January in any of the years
\* NormFirstYear .. NormFirstYear + NormYears - 1, and a point of July in the
\* year NormFirstYear.
NormFirstYear == 2015
NormYears == 6

(* ------------------------- program constants --------------------------- *)

MonthsPerYear == 12
RecentYears == 5

(* --------------------------- input domains ----------------------------- *)

\* the calendar months the remote platform may hold images for: two
\* neighbours, and the two sides of a year's end
DataMonths == {1, 2, 12}
\* aggregates the remote platform may report, in ten-thousandths
RawNdviValues == {-1000, 0, 4004}
\* ndvi values of the normalizer's input points
NormValues == {100, 401}

Years == FirstYear .. LastYear

(* ------------------------------ strings -------------------------------- *)

DigitChars == <<"0", "1", "2", "3", "4", "5", "6", "7", "8", "9">>

DigitChar(d) == DigitChars[d + 1]

DigitValue(c) == CHOOSE d \in 0..9 : DigitChars[d + 1] = c

\* f'{n}' for an int n >= 0
RECURSIVE FormatInt(_)
FormatInt(n) ==
    IF n < 10 THEN <<DigitChar(n)>>
    ELSE FormatInt(n \div 10) \o <<DigitChar(n % 10)>>

\* f'{n:02d}' for an int n >= 0
FormatInt02(n) ==
    IF n < 10 THEN <<"0", DigitChar(n)>> ELSE FormatInt(n)

\* f'{year}-{month:02d}'
FormatMonthKey(year, month) ==
    FormatInt(year) \o <<"-">> \o FormatInt02(month)

\* s.split(sep): the pieces of s between the occurrences of sep
RECURSIVE SplitLoop(_, _, _, _)
SplitLoop(s, sep, i, cur) ==
    IF i > Len(s) THEN <<cur>>
    ELSE IF s[i] = sep THEN <<cur>> \o SplitLoop(s, sep, i + 1, <<>>)
    ELSE SplitLoop(s, sep, i + 1, Append(cur, s[i]))

Split(s, sep) == SplitLoop(s, sep, 1, <<>>)

\* int(s) for a string of decimal digits
RECURSIVE ParseInt(_)
ParseInt(s) ==
    IF Len(s) = 0 THEN 0
    ELSE 10 * ParseInt(SubSeq(s, 1, Len(s) - 1)) + DigitValue(s[Len(s)])

\* int(item['month'].split('-')[1])
MonthOf(item) == ParseInt(Split(item.month, "-")[2])

(* ----------------------------- arithmetic ------------------------------ *)

Abs(x) == IF x < 0 THEN -x ELSE x

RECURSIVE SumSeq(_)
SumSeq(s) == IF Len(s) = 0 THEN 0 ELSE s[1] + SumSeq(Tail(s))

\* equality of the rationals a and b (<<num, den>>, den > 0)
RatEq(a, b) == a[1] * b[2] = b[1] * a[2]

\* round(num / den) to an integer, den > 0: every integer nearest to the
\* quotient (two of them exactly when the quotient is half-way)
RoundSet(num, den) ==
    LET fl == IF num >= 0 THEN num \div den ELSE -((-num + den - 1) \div den)
    IN  {q \in {fl, fl + 1} : 2 * Abs(num - q * den) <= den}

(* ------------------ apply_seasonal_normalization ----------------------- *)

\* A point of a series is [month |-> key, ndvi |-> thousandths].

\* the grouping loop: month_groups after the items i .. Len have been added
RECURSIVE GroupLoop(_, _, _)
GroupLoop(monthly_ndvi, i, month_groups) ==
    IF i > Len(monthly_ndvi) THEN month_groups
    ELSE LET month == MonthOf(monthly_ndvi[i])
             g == IF month \in DOMAIN month_groups
                  THEN month_groups
                  ELSE (month :> <<>>) @@ month_groups
         IN  GroupLoop(monthly_ndvi, i + 1,
                       [g EXCEPT ![month] = Append(@, monthly_ndvi[i].ndvi)])

MonthGroups(monthly_ndvi) == GroupLoop(monthly_ndvi, 1, <<>>)

\* values[:5] for values[-5:]
RecentValuesOldest(values) ==
    IF Len(values) >= RecentYears THEN SubSeq(values, 1, RecentYears) ELSE values

\* values[-4:] for values[-5:]
RecentValuesLastFour(values) ==
    IF Len(values) >= RecentYears
    THEN SubSeq(values, Len(values) - RecentYears + 2, Len(values))
    ELSE values

\* values[-5:] if len(values) >= 5 else values
RecentValues(values) ==
    IF Len(values) >= RecentYears
    THEN SubSeq(values, Len(values) - RecentYears + 1, Len(values))
    ELSE values

\* sum(recent_values) / len(recent_values), as <<num, den>>
MeanOf(recent_values) == <<SumSeq(recent_values), Len(recent_values)>>

MonthlyMeans(month_groups) ==
    [month \in DOMAIN month_groups |-> MeanOf(RecentValues(month_groups[month]))]

\* sum(item['ndvi'] for item in monthly_ndvi) / len(monthly_ndvi)
OverallMean(monthly_ndvi) ==
    <<SumSeq([i \in 1..Len(monthly_ndvi) |-> monthly_ndvi[i].ndvi]),
      Len(monthly_ndvi)>>

\* overall_mean left out
NormalizedValueNoOverall(item, monthly_means, overall_mean) ==
    LET month == MonthOf(item)
        mean == IF month \in DOMAIN monthly_means
                THEN monthly_means[month]
                ELSE <<item.ndvi, 1>>
    IN  <<item.ndvi * mean[2] - mean[1], mean[2]>>

\* item['ndvi'] - mean + overall_mean, as <<num, den>>
NormalizedValue(item, monthly_means, overall_mean) ==
    LET month == MonthOf(item)
        mean == IF month \in DOMAIN monthly_means
                THEN monthly_means[month]
                ELSE <<item.ndvi, 1>>
    IN  <<item.ndvi * mean[2] * overall_mean[2]
            - mean[1] * overall_mean[2]
            + overall_mean[1] * mean[2],
          mean[2] * overall_mean[2]>>

\* the sequences whose i-th element is drawn from sets[i]
RECURSIVE SeqsOf(_)
SeqsOf(sets) ==
    IF Len(sets) = 0 THEN {<<>>}
    ELSE {<<x>> \o r : x \in sets[1], r \in SeqsOf(Tail(sets))}

\* the lists apply_seasonal_normalization(monthly_ndvi) can return (one,
\* unless a value to round is half-way between two thousandths)
ApplySeasonalNormalization(monthly_ndvi) ==
    LET monthly_means == MonthlyMeans(MonthGroups(monthly_ndvi))
        overall_mean == OverallMean(monthly_ndvi)
        value(i) == NormalizedValue(monthly_ndvi[i], monthly_means, overall_mean)
    IN  SeqsOf([i \in 1..Len(monthly_ndvi) |-> RoundSet(value(i)[1], value(i)[2])])

(* ------------------------------- state --------------------------------- *)

VARIABLES
    \* one request of the server
    handler,        \* "none", "compute_ndvi" or "generate_tiles"
    pc,             \* the handler's position
    start_year, end_year, year, month,   \* locals of compute_ndvi
    data_months,    \* months of this request with a non-empty collection so far
    monthly_ndvi,   \* the series compute_ndvi builds
    scalars,        \* baseline_ndvi, current_ndvi, ndvi_change, vegetation_loss_percent
    norm_inputs,    \* the arguments apply_seasonal_normalization was called with
    view_type, map_id,  \* locals of generate_tiles
    calls,          \* the remote round trips issued, in order, with their outcome
    raised,         \* the exceptions raised in the handler, in order
    responses,      \* the HTTP responses sent, in order
    \* apply_seasonal_normalization on its own
    n_pc,           \* "input", "normalized", "reordered" or "renormalized"
    n_series,       \* the argument
    n_means,        \* monthly_means of the last call
    n_overall,      \* overall_mean of the last call
    n_out,          \* the list the last call returned
    n_first_means   \* monthly_means of the call before the reordering

handler_vars == <<handler, pc, start_year, end_year, year, month, data_months,
                  monthly_ndvi, scalars, norm_inputs, view_type, map_id, calls,
                  raised, responses>>

norm_vars == <<n_pc, n_series, n_means, n_overall, n_out, n_first_means>>

vars == <<handler_vars, norm_vars>>

NoMeans == [m \in {} |-> <<0, 1>>]

HandlerIdle ==
    /\ handler = "none" /\ pc = "idle"
    /\ start_year = 0 /\ end_year = 0 /\ year = 0 /\ month = 0
    /\ data_months = 0
    /\ monthly_ndvi = <<>>
    /\ scalars = [evaluated |-> FALSE, baseline_ndvi |-> 0, current_ndvi |-> 0,
                  ndvi_change |-> 0, vegetation_loss_percent |-> <<0, 1>>]
    /\ norm_inputs = <<>>
    /\ view_type = "" /\ map_id = ""
    /\ calls = <<>> /\ raised = <<>> /\ responses = <<>>

NormIdle ==
    /\ n_pc = "input" /\ n_series = <<>>
    /\ n_means = NoMeans /\ n_overall = <<0, 1>> /\ n_out = <<>>
    /\ n_first_means = NoMeans

(* --------------------------- the handlers ------------------------------ *)

\* datetime.now().year
CurrentYear == LastYear

ComputeFields == {"latitude", "longitude", "radiusKm", "startYear", "endYear"}
TilesFields == {"latitude", "longitude", "radiusKm", "viewType"}

\* a request body: whether it parses, the keys it holds, and their values
ComputeRequests ==
    [json_ok : BOOLEAN, present : SUBSET ComputeFields,
     startYear : Years, endYear : Years]

TilesRequests ==
    [json_ok : BOOLEAN, present : SUBSET TilesFields,
     viewType : {"true-color", "false-color", "ndvi", "other"}]

\* the first key of `order` the body lacks (the KeyError the handler raises),
\* or "" when it holds them all
RECURSIVE FirstMissing(_, _)
FirstMissing(order, present) ==
    IF Len(order) = 0 THEN ""
    ELSE IF order[1] \notin present THEN order[1]
    ELSE FirstMissing(Tail(order), present)

\* a fixed text for str(e)
RaiseGeneric(message) ==
    /\ raised' = Append(raised, message)
    /\ responses' = Append(responses,
            [status |-> 500, body |-> [error |-> "Internal Server Error"]])
    /\ pc' = "done"

\* except Exception as e: return jsonify({'error': str(e)}), 500
Raise(message) ==
    /\ raised' = Append(raised, message)
    /\ responses' = Append(responses, [status |-> 500, body |-> [error |-> message]])
    /\ pc' = "done"

Call(kind) ==
    [kind |-> kind, year |-> year, month |-> month, outcome |-> "pending", value |-> 0]

Issue(kind) == calls' = Append(calls, Call(kind))

Answer(outcome, value) ==
    calls' = [calls EXCEPT ![Len(calls)].outcome = outcome,
                           ![Len(calls)].value = value]

\* try: data = request.get_json(); lat = data['latitude'] ... end_year = data.get(...)
ReceiveComputeNdvi ==
    /\ pc = "idle"
    /\ \E req \in ComputeRequests :
        LET missing == FirstMissing(<<"latitude", "longitude", "radiusKm", "startYear">>,
                                    req.present)
        IN  /\ handler' = "compute_ndvi"
            /\ IF ~req.json_ok
               THEN /\ Raise("400 Bad Request")
                    /\ UNCHANGED <<start_year, end_year>>
               ELSE IF missing # ""
               THEN /\ Raise(missing)
                    /\ UNCHANGED <<start_year, end_year>>
               ELSE /\ start_year' = req.startYear
                    /\ end_year' = IF "endYear" \in req.present
                                   THEN req.endYear ELSE CurrentYear
                    /\ pc' = "build"
                    /\ UNCHANGED <<raised, responses>>
    /\ UNCHANGED <<year, month, data_months, monthly_ndvi, scalars, norm_inputs,
                   view_type, map_id, calls>>
    /\ UNCHANGED norm_vars

\* for year in range(start_year, end_year + 1): for month in range(1, 13):
\* the loop variables after the iteration (y, m), or the end of the loop
LoopFrom(y, m) ==
    IF y < end_year + 1
    THEN /\ year' = y /\ month' = m /\ pc' = "size_call"
    ELSE /\ pc' = "after_loop" /\ UNCHANGED <<year, month>>

\* the two loops nested the other way round: for month ...: for year ...:
LoopAdvanceMonthMajor ==
    IF year < end_year
    THEN LoopFrom(year + 1, month)
    ELSE IF month + 1 < MonthsPerYear + 1
    THEN LoopFrom(start_year, month + 1)
    ELSE LoopFrom(end_year + 1, 1)

\* range(1, 12) for range(1, 13)
LoopAdvanceEleven ==
    IF month + 1 < MonthsPerYear
    THEN LoopFrom(year, month + 1)
    ELSE LoopFrom(year + 1, 1)

LoopAdvance ==
    IF month + 1 < MonthsPerYear + 1
    THEN LoopFrom(year, month + 1)
    ELSE LoopFrom(year + 1, 1)

\* aoi = create_aoi(...); collection = (ee.ImageCollection(...)...); monthly_ndvi = []
BuildQuery ==
    /\ handler = "compute_ndvi" /\ pc = "build"
    /\ \/ /\ Raise("EEException: query")
          /\ UNCHANGED <<year, month, monthly_ndvi>>
       \/ /\ monthly_ndvi' = <<>>
          /\ LoopFrom(start_year, 1)
          /\ UNCHANGED <<raised, responses>>
    /\ UNCHANGED <<handler, start_year, end_year, data_months, scalars, norm_inputs,
                   view_type, map_id, calls>>
    /\ UNCHANGED norm_vars

\* month_collection.size().getInfo(): the request leaves
IssueSize ==
    /\ handler = "compute_ndvi" /\ pc = "size_call"
    /\ Issue("size")
    /\ pc' = "size_wait"
    /\ UNCHANGED <<handler, start_year, end_year, year, month, data_months,
                   monthly_ndvi, scalars, norm_inputs, view_type, map_id, raised,
                   responses>>
    /\ UNCHANGED norm_vars

\* month_collection.size().getInfo() returns or raises; if ... > 0:
AnswerSize ==
    /\ handler = "compute_ndvi" /\ pc = "size_wait"
    /\ \/ /\ Answer("error", 0)
          /\ Raise("EEException: size")
          /\ UNCHANGED <<year, month, data_months>>
       \/ /\ Answer("ok", 0)
          /\ LoopAdvance
          /\ UNCHANGED <<raised, responses, data_months>>
       \/ /\ data_months < MaxData /\ month \in DataMonths
          /\ Answer("ok", 1)
          /\ data_months' = data_months + 1
          /\ pc' = "reduce_call"
          /\ UNCHANGED <<raised, responses, year, month>>
    /\ UNCHANGED <<handler, start_year, end_year, monthly_ndvi, scalars, norm_inputs,
                   view_type, map_id>>
    /\ UNCHANGED norm_vars

\* median_ndvi.reduceRegion(...).get('NDVI').getInfo(): the request leaves
IssueReduce ==
    /\ handler = "compute_ndvi" /\ pc = "reduce_call"
    /\ Issue("reduce")
    /\ pc' = "reduce_wait"
    /\ UNCHANGED <<handler, start_year, end_year, year, month, data_months,
                   monthly_ndvi, scalars, norm_inputs, view_type, map_id, raised,
                   responses>>
    /\ UNCHANGED norm_vars

\* if ndvi_value: for if ndvi_value is not None:
IsRecordedTruthy(outcome, raw) == outcome # "null" /\ raw # 0

\* if ndvi_value is not None
IsRecorded(outcome, raw) == outcome # "null"

\* {'month': f'{year}-{month:02d}', 'ndvi': round(ndvi_value, 3)}, raw in
\* ten-thousandths
Points(raw) ==
    {[month |-> FormatMonthKey(year, month), ndvi |-> v] : v \in RoundSet(raw, 10)}

\* ...getInfo() returns or raises; if ndvi_value is not None: monthly_ndvi.append(...)
AnswerReduce ==
    /\ handler = "compute_ndvi" /\ pc = "reduce_wait"
    /\ \/ /\ Answer("error", 0)
          /\ Raise("EEException: reduceRegion")
          /\ UNCHANGED <<year, month, monthly_ndvi>>
       \/ \E outcome \in {"null", "value"} :
          \E raw \in IF outcome = "null" THEN {0} ELSE RawNdviValues :
             /\ Answer(outcome, raw)
             /\ IF IsRecorded(outcome, raw)
                THEN \E point \in Points(raw) :
                        monthly_ndvi' = Append(monthly_ndvi, point)
                ELSE UNCHANGED monthly_ndvi
             /\ LoopAdvance
             /\ UNCHANGED <<raised, responses>>
    /\ UNCHANGED <<handler, start_year, end_year, data_months, scalars, norm_inputs,
                   view_type, map_id>>
    /\ UNCHANGED norm_vars

\* a / b: raises ZeroDivisionError when b = 0, else the quotient as <<num, den>>
Divide(a, b) ==
    IF b = 0 THEN [error |-> TRUE, value |-> <<0, 1>>]
    ELSE [error |-> FALSE, value |-> IF b > 0 THEN <<a, b>> ELSE <<-a, -b>>]

\* the guard left out
VegetationLossPercentUnguarded(change, baseline) ==
    LET q == Divide(change, baseline)
    IN  [error |-> q.error, value |-> <<Abs(q.value[1] * 100), q.value[2]>>]

\* abs((ndvi_change / baseline_ndvi) * 100) if baseline_ndvi > 0 else 0
VegetationLossPercent(change, baseline) ==
    IF baseline > 0
    THEN LET q == Divide(change, baseline)
         IN  [error |-> q.error, value |-> <<Abs(q.value[1] * 100), q.value[2]>>]
    ELSE [error |-> FALSE, value |-> <<0, 1>>]

\* baseline_ndvi = monthly_ndvi[0]['ndvi']
BaselineNdvi(series) == series[1].ndvi

\* monthly_ndvi[0] for monthly_ndvi[-1]
CurrentNdviFirst(series) == series[1].ndvi

\* current_ndvi = monthly_ndvi[-1]['ndvi']
CurrentNdvi(series) == series[Len(series)].ndvi

\* for i, item in enumerate(monthly_ndvi): if i < len(normalized): item['normalized'] = ...
AttachNormalized(series, normalized) ==
    [i \in 1..Len(series) |->
        IF i <= Len(normalized)
        THEN [month |-> series[i].month, ndvi |-> series[i].ndvi,
              normalized |-> normalized[i]]
        ELSE series[i]]

\* the status left out of the return
NoDataResponse200 ==
    [status |-> 200, body |-> [error |-> "No valid satellite data found"]]

\* return jsonify({'error': 'No valid satellite data found'}), 404
NoDataResponse ==
    [status |-> 404, body |-> [error |-> "No valid satellite data found"]]

\* if not monthly_ndvi
IsEmptySeries(series) == Len(series) = 0

\* lines 138-159: the 404, or the scalars, the normalization and the 200
Respond ==
    /\ handler = "compute_ndvi" /\ pc = "after_loop"
    /\ IF IsEmptySeries(monthly_ndvi)
       THEN /\ responses' = Append(responses, NoDataResponse)
            /\ pc' = "done"
            /\ UNCHANGED <<monthly_ndvi, scalars, norm_inputs, raised>>
       ELSE LET baseline_ndvi == BaselineNdvi(monthly_ndvi)
                current_ndvi == CurrentNdvi(monthly_ndvi)
                ndvi_change == current_ndvi - baseline_ndvi
                loss == VegetationLossPercent(ndvi_change, baseline_ndvi)
            IN  IF loss.error
                THEN /\ Raise("float division by zero")
                     /\ UNCHANGED <<monthly_ndvi, scalars, norm_inputs>>
                ELSE /\ scalars' = [evaluated |-> TRUE,
                                    baseline_ndvi |-> baseline_ndvi,
                                    current_ndvi |-> current_ndvi,
                                    ndvi_change |-> ndvi_change,
                                    vegetation_loss_percent |-> loss.value]
                     /\ norm_inputs' = Append(norm_inputs, monthly_ndvi)
                     /\ \E normalized \in ApplySeasonalNormalization(monthly_ndvi) :
                        \E rounded_loss \in RoundSet(loss.value[1] * 10, loss.value[2]) :
                           /\ monthly_ndvi' = AttachNormalized(monthly_ndvi, normalized)
                           /\ responses' = Append(responses,
                                 [status |-> 200,
                                  body |-> [baseline_ndvi |-> baseline_ndvi,
                                            current_ndvi |-> current_ndvi,
                                            ndvi_change |-> ndvi_change,
                                            vegetation_loss_percent |-> rounded_loss,
                                            monthly_ndvi |-> monthly_ndvi']])
                     /\ pc' = "done"
                     /\ UNCHANGED raised
    /\ UNCHANGED <<handler, start_year, end_year, year, month, data_months,
                   view_type, map_id, calls>>
    /\ UNCHANGED norm_vars

\* try: data = request.get_json(); lat = data['latitude'] ... view_type = data['viewType']
ReceiveGenerateTiles ==
    /\ pc = "idle"
    /\ \E req \in TilesRequests :
        LET missing == FirstMissing(<<"latitude", "longitude", "radiusKm", "viewType">>,
                                    req.present)
        IN  /\ handler' = "generate_tiles"
            /\ IF ~req.json_ok
               THEN /\ Raise("400 Bad Request")
                    /\ UNCHANGED view_type
               ELSE IF missing # ""
               THEN /\ Raise(missing)
                    /\ UNCHANGED view_type
               ELSE /\ view_type' = req.viewType
                    /\ pc' = "t_build"
                    /\ UNCHANGED <<raised, responses>>
    /\ UNCHANGED <<start_year, end_year, year, month, data_months, monthly_ndvi,
                   scalars, norm_inputs, map_id, calls>>
    /\ UNCHANGED norm_vars

\* lines 215-240: the area, the collection, its first image and the bands of
\* the view, built on the client
BuildTiles ==
    /\ handler = "generate_tiles" /\ pc = "t_build"
    /\ \/ Raise("EEException: query")
       \/ /\ pc' = "t_mapid_call"
          /\ UNCHANGED <<raised, responses>>
    /\ UNCHANGED <<handler, start_year, end_year, year, month, data_months,
                   monthly_ndvi, scalars, norm_inputs, view_type, map_id, calls>>
    /\ UNCHANGED norm_vars

\* vis_image.getMapId({...}): the request leaves
IssueGetMapId ==
    /\ handler = "generate_tiles" /\ pc = "t_mapid_call"
    /\ Issue("getMapId")
    /\ pc' = "t_mapid_wait"
    /\ UNCHANGED <<handler, start_year, end_year, year, month, data_months,
                   monthly_ndvi, scalars, norm_inputs, view_type, map_id, raised,
                   responses>>
    /\ UNCHANGED norm_vars

\* vis_image.getMapId({...}) returns or raises (no image in the last 90 days)
AnswerGetMapId ==
    /\ handler = "generate_tiles" /\ pc = "t_mapid_wait"
    /\ \/ /\ Answer("error", 0)
          /\ Raise("EEException: getMapId")
          /\ UNCHANGED map_id
       \/ /\ Answer("ok", 0)
          /\ map_id' = "map_id"
          /\ pc' = "t_info_call"
          /\ UNCHANGED <<raised, responses>>
    /\ UNCHANGED <<handler, start_year, end_year, year, month, data_months,
                   monthly_ndvi, scalars, norm_inputs, view_type>>
    /\ UNCHANGED norm_vars

\* map_id.getInfo(): the call starts
IssueGetInfo ==
    /\ handler = "generate_tiles" /\ pc = "t_info_call"
    /\ Issue("getInfo")
    /\ pc' = "t_info_wait"
    /\ UNCHANGED <<handler, start_year, end_year, year, month, data_months,
                   monthly_ndvi, scalars, norm_inputs, view_type, map_id, raised,
                   responses>>
    /\ UNCHANGED norm_vars

\* the f-string of lines 250-254
UrlTemplate(map_id_info) ==
    <<"https://earthengine.googleapis.com/v1alpha/projects/earthengine-legacy/maps/",
      map_id_info.mapid, "/tiles/{z}/{x}/{y}", "?token=", map_id_info.token>>

\* map_id.getInfo() returns or raises; lines 250-260: the 200
AnswerGetInfo ==
    /\ handler = "generate_tiles" /\ pc = "t_info_wait"
    /\ \/ /\ Answer("error", 0)
          /\ Raise("getInfo failed")
       \/ \E map_id_info \in [mapid : {"m1", "m2"}, token : {"t1"}] :
          /\ Answer("ok", 0)
          /\ responses' = Append(responses,
                [status |-> 200,
                 body |-> [mapid |-> map_id_info.mapid,
                           token |-> map_id_info.token,
                           urlTemplate |-> UrlTemplate(map_id_info)]])
          /\ pc' = "done"
          /\ UNCHANGED raised
    /\ UNCHANGED <<handler, start_year, end_year, year, month, data_months,
                   monthly_ndvi, scalars, norm_inputs, view_type, map_id>>
    /\ UNCHANGED norm_vars

Init == HandlerIdle /\ NormIdle

Next ==
    \/ ReceiveComputeNdvi
    \/ BuildQuery
    \/ IssueSize
    \/ AnswerSize
    \/ IssueReduce
    \/ AnswerReduce
    \/ Respond
    \/ ReceiveGenerateTiles
    \/ BuildTiles
    \/ IssueGetMapId
    \/ AnswerGetMapId
    \/ IssueGetInfo
    \/ AnswerGetInfo

Spec == Init /\ [][Next]_vars

(* ------------- apply_seasonal_normalization on its own ----------------- *)

NormSlots ==
    {<<y, 1>> : y \in NormFirstYear .. (NormFirstYear + NormYears - 1)}
    \cup {<<NormFirstYear, 7>>}

\* the points of f (a function from slots to ndvi values) in chronological order
RECURSIVE SeriesOf(_)
SeriesOf(f) ==
    IF DOMAIN f = {} THEN <<>>
    ELSE LET first == CHOOSE a \in DOMAIN f :
                        \A b \in DOMAIN f :
                            a[1] * MonthsPerYear + a[2] <= b[1] * MonthsPerYear + b[2]
         IN  <<[month |-> FormatMonthKey(first[1], first[2]), ndvi |-> f[first]]>>
             \o SeriesOf([a \in DOMAIN f \ {first} |-> f[a]])

\* the series the normalizer is tried on: compute_ndvi calls it on non-empty
\* series only
NormInputs ==
    {SeriesOf(f) : f \in UNION {[P -> NormValues] : P \in SUBSET NormSlots \ {{}}}}

InitNorm ==
    /\ HandlerIdle
    /\ n_pc = "input" /\ n_series \in NormInputs
    /\ n_means = NoMeans /\ n_overall = <<0, 1>> /\ n_out = <<>>
    /\ n_first_means = NoMeans

\* normalized = apply_seasonal_normalization(n_series)
Normalize ==
    /\ n_pc \in {"input", "reordered"}
    /\ n_means' = MonthlyMeans(MonthGroups(n_series))
    /\ n_overall' = OverallMean(n_series)
    /\ n_out' \in ApplySeasonalNormalization(n_series)
    /\ n_pc' = IF n_pc = "input" THEN "normalized" ELSE "renormalized"
    /\ UNCHANGED <<n_series, n_first_means>>
    /\ UNCHANGED handler_vars

\* the caller exchanges the ndvi values of two points of the same calendar
\* month before it calls the function again
Reorder ==
    /\ n_pc \in {"normalized", "reordered"}
    /\ \E i, j \in 1..Len(n_series) :
        /\ i < j
        /\ MonthOf(n_series[i]) = MonthOf(n_series[j])
        /\ n_series[i].ndvi # n_series[j].ndvi
        /\ n_series' = [n_series EXCEPT ![i].ndvi = n_series[j].ndvi,
                                         ![j].ndvi = n_series[i].ndvi]
    /\ n_first_means' = IF n_pc = "normalized" THEN n_means ELSE n_first_means
    /\ n_pc' = "reordered"
    /\ UNCHANGED <<n_means, n_overall, n_out>>
    /\ UNCHANGED handler_vars

NextNorm == Normalize \/ Reorder

SpecNorm == InitNorm /\ [][NextNorm]_vars

(* ------------------------- properties: handlers ------------------------ *)

\* the year part of a month key
YearOf(item) == ParseInt(Split(item.month, "-")[1])

\* a month key as a number of months
Chron(item) == YearOf(item) * 12 + MonthOf(item)

InLoop == pc \in {"size_call", "size_wait", "reduce_call", "reduce_wait"}

NoCallFailed == \A k \in 1..Len(calls) : calls[k].outcome # "error"

IsSizeCall(c) == c.kind = "size"

SizeCalls == SelectSeq(calls, IsSizeCall)

\* the remote platform reported images and a non-null aggregate for (y, m)
Reported(y, m) ==
    /\ \E k \in 1..Len(calls) :
          /\ calls[k].kind = "size" /\ calls[k].year = y /\ calls[k].month = m
          /\ calls[k].outcome = "ok" /\ calls[k].value > 0
    /\ \E k \in 1..Len(calls) :
          /\ calls[k].kind = "reduce" /\ calls[k].year = y /\ calls[k].month = m
          /\ calls[k].outcome = "value"

HasPoint(y, m) ==
    \E i \in 1..Len(monthly_ndvi) : monthly_ndvi[i].month = FormatMonthKey(y, m)

\* C1: for startYear <= endYear the series never holds more points than the
\* months iterated so far, hence at most (endYear - startYear + 1) * 12; at
\* every step of the loop every key is a calendar month of the range and the
\* keys are strictly increasing in chronological order (so no duplicate).
C1_SeriesBoundedAndIncreasing ==
    (handler = "compute_ndvi" /\ start_year <= end_year) =>
        /\ Len(monthly_ndvi) <= (end_year - start_year + 1) * 12
        /\ InLoop => Len(monthly_ndvi) <= (year - start_year) * 12 + month
        /\ \A i \in 1..Len(monthly_ndvi) :
              /\ MonthOf(monthly_ndvi[i]) \in 1..12
              /\ YearOf(monthly_ndvi[i]) \in start_year..end_year
        /\ \A i, j \in 1..Len(monthly_ndvi) :
              i < j => Chron(monthly_ndvi[i]) < Chron(monthly_ndvi[j])

\* the loop is under way with two points of different years
C1_Witness ==
    /\ handler = "compute_ndvi" /\ pc = "size_call" /\ start_year < end_year
    /\ Len(monthly_ndvi) = 2
    /\ YearOf(monthly_ndvi[1]) < YearOf(monthly_ndvi[2])

\* C2: when no call fails, the final series holds a point for (year, month)
\* exactly when the month is in the requested range and the remote platform
\* reported a non-empty collection and a non-null aggregate for it; each such
\* month has exactly one point, carrying its aggregate rounded to 3 decimals
\* (an aggregate of 0 included), and empty or null months have none.
C2_PointsAreReportedMonths ==
    (handler = "compute_ndvi" /\ pc = "done" /\ responses[1].status # 500) =>
        /\ \A y \in (FirstYear - 1)..(LastYear + 1) : \A m \in 0..13 :
              HasPoint(y, m) <=>
                  (start_year <= y /\ y <= end_year /\ 1 <= m /\ m <= 12
                   /\ Reported(y, m))
        /\ \A k \in 1..Len(calls) :
              (calls[k].kind = "reduce" /\ calls[k].outcome = "value") =>
                  \E i \in 1..Len(monthly_ndvi) :
                      /\ monthly_ndvi[i].month
                            = FormatMonthKey(calls[k].year, calls[k].month)
                      /\ monthly_ndvi[i].ndvi \in RoundSet(calls[k].value, 10)
        /\ Len(monthly_ndvi)
             = Cardinality({k \in 1..Len(calls) :
                              calls[k].kind = "reduce" /\ calls[k].outcome = "value"})

\* a finished request with an empty month, a null month and a month whose
\* aggregate is 0, recorded as 0
C2_Witness ==
    /\ handler = "compute_ndvi" /\ pc = "done" /\ responses[1].status = 200
    /\ \E k \in 1..Len(calls) : calls[k].kind = "size" /\ calls[k].value = 0
    /\ \E k \in 1..Len(calls) : calls[k].outcome = "null"
    /\ \E k \in 1..Len(calls) :
          /\ calls[k].outcome = "value" /\ calls[k].value = 0
          /\ \E i \in 1..Len(monthly_ndvi) :
                /\ monthly_ndvi[i].month = FormatMonthKey(calls[k].year, calls[k].month)
                /\ monthly_ndvi[i].ndvi = 0

\* C3: a request whose series ends up empty with no failure is answered 404
\* with the error body "No valid satellite data found"; the scalars and the
\* normalizer are never evaluated on an empty series; and a 404 is sent only
\* by compute_ndvi, with an empty series and no exception.
C3_EmptySeriesIs404 ==
    /\ (handler = "compute_ndvi" /\ pc = "done" /\ raised = <<>>
          /\ Len(monthly_ndvi) = 0) =>
            responses = <<[status |-> 404,
                           body |-> [error |-> "No valid satellite data found"]]>>
    /\ scalars.evaluated => Len(monthly_ndvi) > 0
    /\ \A k \in 1..Len(norm_inputs) : Len(norm_inputs[k]) > 0
    /\ \A r \in 1..Len(responses) :
          responses[r].status = 404 =>
              /\ handler = "compute_ndvi" /\ Len(monthly_ndvi) = 0
              /\ raised = <<>> /\ NoCallFailed
              /\ ~scalars.evaluated /\ norm_inputs = <<>>
              /\ \A y \in Years : \A m \in 1..12 : ~Reported(y, m)

\* every month of a non-empty range was asked, some answered null, and the
\* request got the 404
C3_Witness ==
    /\ handler = "compute_ndvi" /\ pc = "done" /\ start_year < end_year
    /\ responses[1].status = 404
    /\ Len(SizeCalls) = (end_year - start_year + 1) * 12
    /\ \E k \in 1..Len(calls) : calls[k].outcome = "null"

\* C4: in both handlers the first exception ends the request: it is the only
\* one, the failing call is the last call issued and no call is issued
\* twice (the newest call repeats no earlier one, in every state), and the
\* request gets exactly one response, a 500 whose body is
\* {error: <message of that exception>} and nothing else; a 500 is sent for
\* no other reason.
C4_FirstFailureEndsRequest ==
    /\ Len(raised) <= 1 /\ Len(responses) <= 1
    /\ (pc = "done") <=> (Len(responses) = 1)
    /\ raised # <<>> =>
          /\ pc = "done"
          /\ responses = <<[status |-> 500, body |-> [error |-> raised[1]]]>>
    /\ \A k \in 1..Len(calls) :
          calls[k].outcome = "error" => (k = Len(calls) /\ raised # <<>>)
    /\ \A k \in 1..(Len(calls) - 1) :
          calls[k].kind = calls[Len(calls)].kind =>
              \/ calls[k].year # calls[Len(calls)].year
              \/ calls[k].month # calls[Len(calls)].month
    /\ \A r \in 1..Len(responses) : responses[r].status = 500 => raised # <<>>

\* a remote call failed after a point had been collected
C4_Witness ==
    /\ handler = "compute_ndvi" /\ pc = "done"
    /\ Len(monthly_ndvi) > 0
    /\ calls[Len(calls)].outcome = "error"
    /\ responses[1].status = 500

\* C5: a request whose series is not empty and in which no call failed is
\* answered 200; vegetation_loss_percent is exactly 0 when the first point's
\* ndvi is <= 0, and |(current - baseline) / baseline| * 100, which is not
\* negative, when it is > 0; the response carries it rounded to 1 decimal.
C5_LossPercentGuarded ==
    (handler = "compute_ndvi" /\ pc = "done" /\ Len(monthly_ndvi) > 0
      /\ NoCallFailed) =>
        LET base == monthly_ndvi[1].ndvi
            cur == monthly_ndvi[Len(monthly_ndvi)].ndvi
            loss == scalars.vegetation_loss_percent
            sent == responses[1].body.vegetation_loss_percent
        IN  /\ raised = <<>> /\ scalars.evaluated
            /\ responses[1].status = 200
            /\ loss[2] > 0
            /\ base <= 0 => (loss[1] = 0 /\ sent = 0)
            /\ base > 0 =>
                  /\ RatEq(loss, <<Abs(cur - base) * 100, base>>)
                  /\ loss[1] >= 0 /\ sent >= 0
                  /\ sent \in RoundSet(Abs(cur - base) * 1000, base)

\* a 200 for a series whose first ndvi is 0 and whose last is not
C5_Witness ==
    /\ handler = "compute_ndvi" /\ pc = "done" /\ Len(monthly_ndvi) = 2
    /\ responses[1].status = 200
    /\ monthly_ndvi[1].ndvi = 0 /\ monthly_ndvi[2].ndvi > 0

\* C6: in every 200 of compute_ndvi, baseline_ndvi is the ndvi of the
\* chronologically first point of monthly_ndvi, current_ndvi that of the
\* last, and ndvi_change their difference; a series of one point gives
\* baseline = current, change 0 and loss percent 0.
C6_ScalarsFromFirstAndLast ==
    (handler = "compute_ndvi" /\ Len(responses) = 1 /\ responses[1].status = 200) =>
        LET body == responses[1].body
            series == body.monthly_ndvi
            first == CHOOSE i \in 1..Len(series) :
                        \A j \in 1..Len(series) : Chron(series[i]) <= Chron(series[j])
            last == CHOOSE i \in 1..Len(series) :
                        \A j \in 1..Len(series) : Chron(series[j]) <= Chron(series[i])
        IN  /\ Len(series) > 0
            /\ body.baseline_ndvi = series[first].ndvi
            /\ body.current_ndvi = series[last].ndvi
            /\ body.ndvi_change = series[last].ndvi - series[first].ndvi
            /\ Len(series) = 1 =>
                  /\ body.baseline_ndvi = body.current_ndvi
                  /\ body.ndvi_change = 0
                  /\ body.vegetation_loss_percent = 0

\* a 200 whose two points carry different values
C6_Witness ==
    /\ handler = "compute_ndvi" /\ Len(responses) = 1 /\ responses[1].status = 200
    /\ Len(responses[1].body.monthly_ndvi) = 2
    /\ responses[1].body.baseline_ndvi # responses[1].body.current_ndvi

\* C10 as claimed: no two remote round trips of a request are for the same
\* calendar month.
C10_OneRoundTripPerMonth ==
    handler = "compute_ndvi" =>
        \A k, l \in 1..Len(calls) :
            k < l => (calls[k].year # calls[l].year \/ calls[k].month # calls[l].month)

\* C10 as amended: the builder asks the size of each month of the range once,
\* month after month in chronological order, and asks the aggregate of a
\* month at most once, right after that month's size came back positive; only
\* the last call issued can be pending, so two calls are never in flight;
\* and every point carries the aggregate reported for its own month.
C10_SequentialCallsPerMonth ==
    handler = "compute_ndvi" =>
        /\ \A k \in 1..Len(calls) :
              /\ calls[k].kind \in {"size", "reduce"}
              /\ calls[k].outcome = "pending" => k = Len(calls)
              /\ calls[k].kind = "reduce" =>
                    /\ k > 1
                    /\ calls[k - 1].kind = "size"
                    /\ calls[k - 1].year = calls[k].year
                    /\ calls[k - 1].month = calls[k].month
                    /\ calls[k - 1].outcome = "ok" /\ calls[k - 1].value > 0
        /\ LET size_calls == SizeCalls
           IN  /\ \A n \in 1..Len(size_calls) :
                     /\ size_calls[n].year = start_year + ((n - 1) \div 12)
                     /\ size_calls[n].month = ((n - 1) % 12) + 1
                     /\ size_calls[n].year <= end_year
               /\ (pc = "after_loop" \/ (pc = "done" /\ raised = <<>>)) =>
                     Len(size_calls) = IF start_year <= end_year
                                       THEN (end_year - start_year + 1) * 12 ELSE 0
        /\ \A i \in 1..Len(monthly_ndvi) :
              \E k \in 1..Len(calls) :
                  /\ calls[k].kind = "reduce" /\ calls[k].outcome = "value"
                  /\ FormatMonthKey(calls[k].year, calls[k].month) = monthly_ndvi[i].month
                  /\ monthly_ndvi[i].ndvi \in RoundSet(calls[k].value, 10)

\* a month took two round trips and the next month's size query is pending
C10_Witness ==
    /\ handler = "compute_ndvi" /\ pc = "size_wait" /\ Len(calls) >= 3
    /\ calls[Len(calls)].outcome = "pending"
    /\ calls[Len(calls) - 1].kind = "reduce"
    /\ calls[Len(calls) - 2].kind = "size"
    /\ calls[Len(calls) - 2].month = calls[Len(calls) - 1].month
    /\ calls[Len(calls)].month # calls[Len(calls) - 1].month

(* ------------------------ properties: normalizer ----------------------- *)

\* the calendar month a key ends with
CalendarMonth(item) ==
    CHOOSE m \in 1..12 :
        FormatInt02(m) = SubSeq(item.month, Len(item.month) - 1, Len(item.month))

\* the positions of the points of calendar month m
GroupIndices(series, m) ==
    {i \in 1..Len(series) : CalendarMonth(series[i]) = m}

\* the last 5 of them, or all when there are fewer
RecentIndices(series, m) ==
    LET G == GroupIndices(series, m)
    IN  {i \in G : Cardinality({j \in G : j > i}) < 5}

RECURSIVE SumOver(_, _)
SumOver(series, S) ==
    IF S = {} THEN 0
    ELSE LET i == CHOOSE i \in S : TRUE
         IN  series[i].ndvi + SumOver(series, S \ {i})

NormDone == n_pc \in {"normalized", "renormalized"}

\* C7: monthlyMean[m] is the arithmetic mean of the last 5 values of month
\* m's group in series order when the group has 5 or more, and of all of them
\* when it has fewer; overallMean is the mean of all values; the function
\* returns one value per point, ndvi - monthlyMean[m] + overallMean rounded
\* to 3 decimals.
C7_MeanOfLastFive ==
    NormDone =>
        LET n == Len(n_series)
            total == SumOver(n_series, 1..n)
        IN  /\ RatEq(n_overall, <<total, n>>)
            /\ Len(n_out) = n
            /\ \A m \in 1..12 :
                  LET G == GroupIndices(n_series, m)
                      R == RecentIndices(n_series, m)
                  IN  IF G = {} THEN m \notin DOMAIN n_means
                      ELSE /\ m \in DOMAIN n_means
                           /\ Cardinality(R)
                                = IF Cardinality(G) >= 5 THEN 5 ELSE Cardinality(G)
                           /\ RatEq(n_means[m], <<SumOver(n_series, R), Cardinality(R)>>)
            /\ \A i \in 1..n :
                  LET R == RecentIndices(n_series, CalendarMonth(n_series[i]))
                      c == Cardinality(R)
                  IN  n_out[i] \in RoundSet(n_series[i].ndvi * c * n
                                             - SumOver(n_series, R) * n + total * c,
                                            c * n)

\* a January group of more than 5 values whose oldest value would change the
\* mean, beside a July point
C7_Witness ==
    /\ n_pc = "normalized"
    /\ Cardinality(GroupIndices(n_series, 1)) > 5
    /\ GroupIndices(n_series, 7) # {}
    /\ 5 * n_series[CHOOSE i \in GroupIndices(n_series, 1) :
                        \A j \in GroupIndices(n_series, 1) : i <= j].ndvi
         # SumOver(n_series, RecentIndices(n_series, 1))

\* C8 as claimed: exchanging ndvi values among the points of one calendar
\* month changes no group's monthlyMean, whatever the size of the group.
C8_MeansOrderIndependent ==
    n_pc = "renormalized" =>
        \A m \in DOMAIN n_means :
            m \in DOMAIN n_first_means /\ RatEq(n_means[m], n_first_means[m])

\* C8 as amended: exchanging ndvi values among the points of one calendar
\* month does not change the monthlyMean of a group of at most 5 points.
C8_SmallGroupMeansOrderIndependent ==
    n_pc = "renormalized" =>
        \A m \in DOMAIN n_means :
            Cardinality(GroupIndices(n_series, m)) <= 5 =>
                m \in DOMAIN n_first_means /\ RatEq(n_means[m], n_first_means[m])

\* a January group of exactly 5 points was reordered and normalized again
C8_Witness ==
    /\ n_pc = "renormalized"
    /\ Cardinality(GroupIndices(n_series, 1)) = 5

\* C9: when every point of a non-empty series carries the same ndvi v, every
\* monthlyMean and the overallMean equal v, and the function returns as many
\* values as there are points, every one equal to v.
C9_ConstantSeriesUnchanged ==
    (NormDone /\ \A i \in 1..Len(n_series) : n_series[i].ndvi = n_series[1].ndvi) =>
        LET v == n_series[1].ndvi
        IN  /\ Len(n_out) = Len(n_series)
            /\ \A i \in 1..Len(n_out) : n_out[i] = v
            /\ \A m \in DOMAIN n_means : RatEq(n_means[m], <<v, 1>>)
            /\ RatEq(n_overall, <<v, 1>>)

\* a constant series with a January group of more than 5 points and a July point
C9_Witness ==
    /\ n_pc = "normalized"
    /\ \A i \in 1..Len(n_series) : n_series[i].ndvi = n_series[1].ndvi
    /\ Cardinality(GroupIndices(n_series, 1)) > 5
    /\ GroupIndices(n_series, 7) # {}

====
